---------------------------- MODULE Spec2Model ----------------------------
(***************************************************************************)
(* A model of the Dyxless batch bot (src/bot.py): the rate governor        *)
(* SimpleRateLimiter, the checkpoint store CheckpointManager, the batch    *)
(* runner process_file_background and the upload handler handle_file.      *)
(*                                                                         *)
(* Spec follows one job row by row, SpecGov and SpecRun the governor under *)
(* concurrent callers and under one job's calls, SpecUpload the handlers   *)
(* of concurrent uploads, SpecStore the checkpoint store.  SpecLong and    *)
(* SpecDistinct follow a job over a long file and over a file of different *)
(* keys, SpecFormat the result formatter, SpecGovLive the governor under   *)
(* fair scheduling, and SpecLongResume a job killed and resumed late.      *)
(*                                                                         *)
(* Time is counted in ticks.  A Python str is a tuple of string tokens,    *)
(* the empty str is <<>> and concatenation is \o.  A dict is a function    *)
(* whose DOMAIN is the set of keys present.                                *)
(***************************************************************************)
EXTENDS Integers, Sequences, FiniteSets, TLC

(***************************************************************************)
(* Parameters of the model.                                                *)
(***************************************************************************)
\* SimpleRateLimiter(max_calls, wait_minutes): the constructor parameters,
\* instantiated small (the bot's instance uses 100 calls and 16 minutes).
max_calls == 2
wait_seconds == 3
\* the sleep chunk of the pause loop (60 s in the source), in ticks
SLEEP_CHUNK == 2
\* the clock stops advancing on its own at MaxTime
MaxTime == 7
\* wait_if_needed is entered at most MaxEnter times by the concurrent callers
MaxEnter == 5

\* the input file has MaxRows rows, in blocks of BlockLen equal keys
MaxRows == 76
BlockLen == 25
\* the process is killed and the job restarted at most MaxCrashes times
MaxCrashes == 1

\* estimate_time is asked about at most MaxEstimate requests
MaxEstimate == 5
\* the number of rows of a long file
LongRows == 201
\* the number of rows of a file whose job is killed and resumed
ResumeRows == 152
\* the number of rows of a file of different keys
DistinctRows == 53
\* the number of further keys results are formatted for
FormatKeys == 16

\* bot.py:490, `if processed - last_checkpoint_save >= 50`
CHECKPOINT_EVERY == 50
\* line 509: the number of processed rows between two backup shipments
BACKUP_EVERY == 100
\* line 541: the position beyond which the previous backup is removed
BACKUP_KEEP_FROM == 200

\* self.reset_time = None
None == 0 - 1

\* Callers of wait_if_needed: the batch job passes user_id and a progress
\* callback (bot.py:461), the single interactive query passes neither a
\* callback (bot.py:848).
Callers == {"job", "single"}
HasCallback(c) == c = "job"

Min(a, b) == IF a < b THEN a ELSE b

VARIABLES
    \* ---- SimpleRateLimiter fields and the clock
    call_count, reset_time, cycle_start_time, now,
    \* asyncio.Lock: its holder ("" when free) and its FIFO of waiters
    lock, lock_waiters,
    \* each caller's position inside wait_if_needed, with its locals
    gpc, wait_time, wake_at,
    \* history: the times at which wait_if_needed returned (a call was
    \* admitted), the admissions since reset_time was last set, and the
    \* number of times wait_if_needed was entered, and the numbers of the calls
    \* that were held back for a pause
    admit_times, window_admits, entered, pause_log,
    \* ---- process_file_background: its position and its locals
    pc, rows, processed, start_index, phone_list, full_list, cache,
    balance_exhausted, last_checkpoint_save, last_file_send,
    \* the backup files of the job in temp/ that were shipped to the requester
    \* (the position each was made at); a backup file whose send failed stays
    \* on disk too and is not followed
    backups,
    \* the external service: "any" when each call is answered in any way, or
    \* the one way it answers every call
    service,
    \* the checkpoints directory: checkpoint id -> unpickled content
    checkpoints,
    \* the uploaded file as pd.read_excel / pd.read_csv finds it, and the
    \* exception (or the refusal of line 362) that ended the job, "" if none,
    \* and whether the requester received a message about it (lines 362, 635)
    file, error, reported,
    \* the module-level dict active_tasks: user id -> checkpoint id
    active_tasks,
    \* history: the kills so far, the processed count at the last kill (known
    \* until the restarted run takes its first step), and the responses the
    \* external service gave to each key in the current run
    crashes, crash_at, api_log,
    \* ---- handle_file: each upload message's sender and file name, the
    \* position of its handler, and the state of the task it started
    sender, fname, hpc, tpc,
    \* the checkpoint id handle_file gave to the job of each upload (line 795)
    tid,
    \* ---- what the last call of a synchronous query method returned
    \* (get_status, estimate_time, load_checkpoint), forgotten at the next step
    returned,
    \* the raw result object a caller of the formatter holds
    raw,
    \* history: per checkpoint id, the data of the last successful save that no
    \* delete followed
    last_saved

gov_vars == <<call_count, reset_time, cycle_start_time, now, lock, lock_waiters,
              gpc, wait_time, wake_at, admit_times, window_admits, entered,
              pause_log>>

job_locals == <<pc, rows, service, processed, start_index, phone_list, full_list,
                cache, balance_exhausted, last_checkpoint_save, last_file_send,
                backups, checkpoints, file, error, reported, crashes, crash_at,
                api_log>>

job_vars == <<job_locals, active_tasks>>

upload_vars == <<sender, fname, tid, hpc, tpc>>

side_vars == <<upload_vars, returned, raw, last_saved>>

vars == <<gov_vars, job_vars, side_vars>>

(***************************************************************************)
(* SimpleRateLimiter.wait_if_needed, bot.py:57-101.                        *)
(* Code between two awaits runs atomically (one asyncio event loop).       *)
(***************************************************************************)
GovInit ==
    /\ call_count = 0
    /\ reset_time = None
    /\ cycle_start_time = None
    /\ now = 0
    /\ lock = ""
    /\ lock_waiters = <<>>
    /\ gpc = [c \in Callers |-> "idle"]
    /\ wait_time = [c \in Callers |-> 0]
    /\ wake_at = [c \in Callers |-> 0]
    /\ admit_times = <<>>
    /\ window_admits = 0
    /\ entered = 0
    /\ pause_log = <<>>

\* (variant: the caller returns without releasing the lock)
AdmitHoldingLock(c) ==
    /\ lock' = lock
    /\ gpc' = [gpc EXCEPT ![c] = "idle"]
    /\ admit_times' = Append(admit_times, now)
\* leaving `async with self.lock` and returning: the call is admitted
Admit(c) ==
    /\ lock' = ""
    /\ gpc' = [gpc EXCEPT ![c] = "idle"]
    /\ admit_times' = Append(admit_times, now)

\* (variant: the reset does not count the call it admits)
ResetWindowToZero(c) ==
    /\ call_count' = 0
    /\ reset_time' = now
    /\ window_admits' = 1
    /\ IF HasCallback(c)
       THEN /\ gpc' = [gpc EXCEPT ![c] = "cb_done"]
            /\ lock' = c
            /\ UNCHANGED admit_times
       ELSE Admit(c)
\* lines 96-101: the window is reset; with a callback the "pause finished"
\* notice is awaited before the lock is released
ResetWindow(c) ==
    /\ call_count' = 1
    /\ reset_time' = now
    /\ window_admits' = 1
    /\ IF HasCallback(c)
       THEN /\ gpc' = [gpc EXCEPT ![c] = "cb_done"]
            /\ lock' = c
            /\ UNCHANGED admit_times
       ELSE Admit(c)

\* lines 84-86: one turn of the pause loop starts a sleep of one chunk
StartSleep(c, w) ==
    /\ gpc' = [gpc EXCEPT ![c] = "sleep"]
    /\ wait_time' = [wait_time EXCEPT ![c] = w]
    /\ wake_at' = [wake_at EXCEPT ![c] = now + Min(SLEEP_CHUNK, w)]

\* (variant: the limit test is off by one)
OverLimitLate(n) == n > max_calls + 1
\* line 68, `if self.call_count > self.max_calls`
OverLimit(n) == n > max_calls

\* lines 69-70, `wait_time = self.wait_seconds - (time.time() - self.reset_time)`
RemainingWait == wait_seconds - (now - reset_time)

\* lines 60-82: the body of wait_if_needed up to its first await, run by
\* caller c once it holds the lock
Body(c) ==
    LET n == call_count + 1
        w == RemainingWait
    IN  IF n = 1
        THEN /\ call_count' = 1
             /\ reset_time' = now
             /\ cycle_start_time' = now
             /\ window_admits' = 1
             /\ Admit(c)
             /\ UNCHANGED <<wait_time, wake_at, pause_log>>
        ELSE IF OverLimit(n)
        THEN IF w > 0
             THEN /\ call_count' = n
                  /\ lock' = c
                  /\ pause_log' = Append(pause_log, Len(admit_times) + 1)
                  /\ IF HasCallback(c)
                     THEN /\ gpc' = [gpc EXCEPT ![c] = "cb_pause"]
                          /\ wait_time' = [wait_time EXCEPT ![c] = w]
                          /\ UNCHANGED wake_at
                     ELSE StartSleep(c, w)
                  /\ UNCHANGED <<reset_time, cycle_start_time, window_admits,
                                 admit_times>>
             ELSE /\ ResetWindow(c)
                  /\ UNCHANGED <<cycle_start_time, wait_time, wake_at, pause_log>>
        ELSE /\ call_count' = n
             /\ window_admits' = window_admits + 1
             /\ Admit(c)
             /\ UNCHANGED <<reset_time, cycle_start_time, wait_time, wake_at,
                            pause_log>>

\* (variant: a caller does not wait for the lock)
EnterUnlocked(c) ==
    /\ gpc[c] = "idle"
    /\ entered' = entered + 1
    /\ Body(c)
    /\ UNCHANGED <<lock_waiters, now>>
\* a caller enters wait_if_needed: it takes the free lock at once, or queues
Enter(c) ==
    /\ gpc[c] = "idle"
    /\ entered' = entered + 1
    /\ IF lock = "" /\ lock_waiters = <<>>
       THEN Body(c) /\ UNCHANGED <<lock_waiters, now>>
       ELSE /\ gpc' = [gpc EXCEPT ![c] = "queued"]
            /\ lock_waiters' = Append(lock_waiters, c)
            /\ UNCHANGED <<call_count, reset_time, cycle_start_time, now, lock,
                           wait_time, wake_at, admit_times, window_admits,
                           pause_log>>

\* the first waiter is woken by the release and takes the lock
Wake(c) ==
    /\ gpc[c] = "queued"
    /\ lock = ""
    /\ lock_waiters # <<>> /\ Head(lock_waiters) = c
    /\ lock_waiters' = Tail(lock_waiters)
    /\ Body(c)
    /\ UNCHANGED <<now, entered>>

\* lines 76-81: the pause notice has been sent; the pause loop begins
PauseNotified(c) ==
    /\ gpc[c] = "cb_pause"
    /\ StartSleep(c, wait_time[c])
    /\ UNCHANGED <<call_count, reset_time, cycle_start_time, now, lock,
                   lock_waiters, admit_times, window_admits, entered,
                   pause_log>>

\* lines 86-94: asyncio.sleep(sleep_chunk) is over; wait_time is reduced by
\* the chunk asked for, whatever time really passed
SleepOver(c) ==
    /\ gpc[c] = "sleep"
    /\ now >= wake_at[c]
    /\ LET w == wait_time[c] - Min(SLEEP_CHUNK, wait_time[c])
       IN  IF w > 0
           THEN /\ IF HasCallback(c)
                   THEN /\ gpc' = [gpc EXCEPT ![c] = "cb_progress"]
                        /\ wait_time' = [wait_time EXCEPT ![c] = w]
                        /\ UNCHANGED wake_at
                   ELSE StartSleep(c, w)
                /\ UNCHANGED <<call_count, reset_time, window_admits, lock,
                               admit_times>>
           ELSE /\ ResetWindow(c)
                /\ wait_time' = [wait_time EXCEPT ![c] = w]
                /\ UNCHANGED wake_at
    /\ UNCHANGED <<cycle_start_time, now, lock_waiters, entered, pause_log>>

\* lines 92-94: the "time left" notice has been sent; next turn of the loop
ProgressNotified(c) ==
    /\ gpc[c] = "cb_progress"
    /\ StartSleep(c, wait_time[c])
    /\ UNCHANGED <<call_count, reset_time, cycle_start_time, now, lock,
                   lock_waiters, admit_times, window_admits, entered,
                   pause_log>>

\* lines 100-101: the "pause finished" notice has been sent; return
DoneNotified(c) ==
    /\ gpc[c] = "cb_done"
    /\ Admit(c)
    /\ UNCHANGED <<call_count, reset_time, cycle_start_time, now, lock_waiters,
                   wait_time, wake_at, window_admits, entered,
                   pause_log>>

\* time.time() advances
Tick ==
    /\ now' = now + 1
    /\ UNCHANGED <<call_count, reset_time, cycle_start_time, lock, lock_waiters,
                   gpc, wait_time, wake_at, admit_times, window_admits, entered,
                   pause_log>>

(***************************************************************************)
(* SimpleRateLimiter.get_status and estimate_time, bot.py:103-140.         *)
(***************************************************************************)
Max(a, b) == IF a > b THEN a ELSE b

\* (variant: remaining is max_calls - call_count, not cut off at 0)
get_status_unclamped ==
    IF call_count = 0
    THEN [used |-> 0, remaining |-> max_calls, next_reset |-> 0, cycle_time |-> 0]
    ELSE [used |-> call_count,
          remaining |-> max_calls - call_count,
          next_reset |-> IF reset_time # None
                         THEN Max(0, wait_seconds - (now - reset_time)) ELSE 0,
          cycle_time |-> IF cycle_start_time # None
                         THEN now - cycle_start_time ELSE 0]
\* get_status, lines 103-128: the dict returned.  `if self.reset_time` holds
\* once reset_time is set (time.time() is never 0); next_reset is given in
\* ticks where the source shows minutes
get_status ==
    IF call_count = 0
    THEN [used |-> 0, remaining |-> max_calls, next_reset |-> 0, cycle_time |-> 0]
    ELSE [used |-> call_count,
          remaining |-> Max(0, max_calls - call_count),
          next_reset |-> IF reset_time # None
                         THEN Max(0, wait_seconds - (now - reset_time)) ELSE 0,
          cycle_time |-> IF cycle_start_time # None
                         THEN now - cycle_start_time ELSE 0]

\* (variant: the pauses between n calls are counted, (n - 1) // max_calls)
estimate_time_pauses(total_requests) ==
    IF total_requests <= 0
    THEN 0
    ELSE LET full_cycles == (total_requests - 1) \div max_calls
             request_time == total_requests * 1
             pause_time == IF full_cycles > 0 THEN full_cycles * wait_seconds ELSE 0
         IN  request_time + pause_time
\* estimate_time, lines 130-140
estimate_time(total_requests) ==
    IF total_requests <= 0
    THEN 0
    ELSE LET full_cycles == total_requests \div max_calls
             request_time == total_requests * 1
             pause_time == IF full_cycles > 0 THEN full_cycles * wait_seconds ELSE 0
         IN  request_time + pause_time

(***************************************************************************)
(* The input column and the external service.                              *)
(***************************************************************************)
\* the values of column 'Результат (ИНН)' after line 365, and their characters
Keys == {"7736207543", "773620754301", "12345", "77362O7543"}
\* further values, all different: the INNs 5040000000, 5040000001, ...
InnTable ==
    << "5040000000", "5040000001", "5040000002", "5040000003", "5040000004", "5040000005",
       "5040000006", "5040000007", "5040000008", "5040000009", "5040000010", "5040000011",
       "5040000012", "5040000013", "5040000014", "5040000015", "5040000016", "5040000017",
       "5040000018", "5040000019", "5040000020", "5040000021", "5040000022", "5040000023",
       "5040000024", "5040000025", "5040000026", "5040000027", "5040000028", "5040000029",
       "5040000030", "5040000031", "5040000032", "5040000033", "5040000034", "5040000035",
       "5040000036", "5040000037", "5040000038", "5040000039", "5040000040", "5040000041",
       "5040000042", "5040000043", "5040000044", "5040000045", "5040000046", "5040000047",
       "5040000048", "5040000049", "5040000050", "5040000051", "5040000052", "5040000053",
       "5040000054", "5040000055", "5040000056", "5040000057", "5040000058", "5040000059" >>
DigitSeq == <<"0","1","2","3","4","5","6","7","8","9">>
Chars(k) ==
    CASE k = "7736207543"   -> <<"7","7","3","6","2","0","7","5","4","3">>
      [] k = "773620754301" -> <<"7","7","3","6","2","0","7","5","4","3","0","1">>
      [] k = "12345"        -> <<"1","2","3","4","5">>
      [] k = "77362O7543"   -> <<"7","7","3","6","2","O","7","5","4","3">>
      [] OTHER ->
           LET n == (CHOOSE i \in 1..Len(InnTable) : InnTable[i] = k) - 1
           IN  <<"5","0","4","0","0","0","0","0",
                 DigitSeq[(n \div 10) + 1], DigitSeq[(n % 10) + 1]>>

Digits == {"0","1","2","3","4","5","6","7","8","9"}
\* str.isdigit
isdigit(s) == s # <<>> /\ \A i \in 1..Len(s) : s[i] \in Digits
\* (variant: the length of the key is not checked)
IsInnAnyLength(k) == isdigit(Chars(k))
\* line 443, `inn.isdigit() and len(inn) in [10, 12]`
IsInn(k) == isdigit(Chars(k)) /\ Len(Chars(k)) \in {10, 12}

\* the files the model is run on: MaxRows rows, block b holding key p[b]
RowsOf(p, n) == [i \in 1..n |-> p[(((i - 1) \div BlockLen) % Len(p)) + 1]]
RowInputs == { RowsOf(p, MaxRows) : p \in [1..3 -> Keys] }

\* what the HTTP round trip of one query can end in
Responses == {"found", "nothing", "not_dict", "402", "500", "timeout"}

\* dyxless_query, lines 262-294: the value returned for each response.  A
\* 200 answer is the JSON body as it came (one record at most in the model)
dyxless_query(query, resp) ==
    CASE resp = "found" ->
           [is_dict |-> TRUE, status |-> TRUE, counts |-> 1, message |-> <<>>,
            data |-> << [table_name |-> <<"egrul">>, phone |-> <<"+7", query>>] >>]
      [] resp = "nothing" ->
           [is_dict |-> TRUE, status |-> TRUE, counts |-> 0, message |-> <<>>,
            data |-> <<>>]
      [] resp = "not_dict" ->
           [is_dict |-> FALSE, status |-> FALSE, counts |-> 0, message |-> <<>>,
            data |-> <<>>]
      [] resp = "402" ->
           [is_dict |-> TRUE, status |-> FALSE, counts |-> 0,
            message |-> <<"insufficient balance">>, data |-> <<>>]
      [] resp = "500" ->
           [is_dict |-> TRUE, status |-> FALSE, counts |-> 0,
            message |-> <<"HTTP oshibka: ", "500">>, data |-> <<>>]
      [] resp = "timeout" ->
           [is_dict |-> TRUE, status |-> FALSE, counts |-> 0,
            message |-> <<"Oshibka soedineniya: ", "timeout">>, data |-> <<>>]

(***************************************************************************)
(* Result formatter, lines 297-348.                                        *)
(***************************************************************************)
RECURSIVE JoinPhones(_)
JoinPhones(data) ==
    IF data = <<>> THEN <<>>
    ELSE IF Len(data) = 1 THEN data[1].phone
    ELSE data[1].phone \o <<", ">> \o JoinPhones(Tail(data))

extract_phones_from_result(data) ==
    IF ~data.status \/ data.counts = 0 THEN <<>> ELSE JoinPhones(data.data)

\* lines 329-346: the parts of the items, joined.  The table name is taken
\* with `item.pop('table_name', 'Неизвестно')`
RECURSIVE JoinItems(_)
JoinItems(data) ==
    LET table_name(item) == IF "table_name" \in DOMAIN item
                            THEN item.table_name ELSE <<"Neizvestno">>
        part(item) == <<"Baza: ">> \o table_name(item)
                      \o <<" | ", "phone: ">> \o item.phone
    IN  IF data = <<>> THEN <<>>
        ELSE IF Len(data) = 1 THEN part(data[1])
        ELSE part(data[1]) \o <<" || ">> \o JoinItems(Tail(data))

\* lines 320-348: the string format_full_result returns
format_full_result(data) ==
    IF ~data.status THEN <<"oshibka: ">> \o data.message
    ELSE IF data.counts = 0 THEN <<>>
    ELSE JoinItems(data.data)

\* line 332: the argument after format_full_result has run on it; pop has
\* removed the key 'table_name' from every item the loop went through
PopTableNames(data) ==
    IF ~data.status \/ data.counts = 0 THEN data
    ELSE [data EXCEPT !.data =
            [i \in 1..Len(data.data) |->
                [f \in DOMAIN data.data[i] \ {"table_name"} |-> data.data[i][f]]]]

(***************************************************************************)
(* The fixed per-row outcomes (transliterated).                            *)
(***************************************************************************)
NO_MONEY == <<"net deneg na balanse">>
NOT_INN == <<"eto ne INN">>
NO_PHONES == <<"net telefonov">>
NOTHING_FOUND == <<"nichego ne naideno">>
QUERY_ERROR == <<"oshibka pri zaprose">>

\* (variant: the message is matched without .lower(), against the
\* capitalised phrase)
IsBalanceErrorCased(result) ==
    \E i \in 1..Len(result.message) : result.message[i] = "Insufficient balance"
\* line 463, `"insufficient balance" in str(result.get('message', '')).lower()`
IsBalanceError(result) ==
    \E i \in 1..Len(result.message) : result.message[i] = "insufficient balance"

\* lines 460-485: the cache entry written for the answer to one query; the
\* outputs appended for the row are its first two components
EntryFor(result) ==
    IF ~result.is_dict
    THEN <<QUERY_ERROR, QUERY_ERROR, FALSE>>
    ELSE IF IsBalanceError(result)
    THEN <<NO_MONEY, NO_MONEY, TRUE>>
    ELSE LET phones == extract_phones_from_result(result)
             full_text == format_full_result(result)
         IN  << IF phones # <<>> THEN phones ELSE NO_PHONES,
                IF full_text # <<>> THEN full_text ELSE NOTHING_FOUND,
                FALSE >>

(***************************************************************************)
(* CheckpointManager, lines 145-191.                                       *)
(***************************************************************************)
\* the id handle_file passes to the job
checkpoint_id == "c0ffee000001"

\* a dict with no key
EmptyDict == [x \in {} |-> 0]

\* what open(path, 'wb') followed by pickle.dump can end in (lines 160-167):
\* the file is written; open raises and the file is as it was; open has
\* truncated the file and the write raises, the file is left cut short
SaveOutcomes == {"saved", "open_failed", "dump_failed"}

\* a checkpoint file: whether pickle.load can read it, and the object it holds
PickleFile(data) == [intact |-> TRUE, data |-> data]
TruncatedFile == [intact |-> FALSE, data |-> EmptyDict]

\* save_checkpoint, lines 157-167: the directory after the call
save_checkpoint(store, id, data, outcome) ==
    CASE outcome = "saved" ->
           [i \in DOMAIN store \cup {id} |->
               IF i = id THEN PickleFile(data) ELSE store[i]]
      [] outcome = "dump_failed" ->
           [i \in DOMAIN store \cup {id} |->
               IF i = id THEN TruncatedFile ELSE store[i]]
      [] outcome = "open_failed" -> store

\* load_checkpoint, lines 169-181: it returns the object of a file that exists
\* and unpickles, and None otherwise (any exception is caught and logged);
\* HasCheckpoint is `load_checkpoint(id) is not None`
HasCheckpoint(store, id) == id \in DOMAIN store /\ store[id].intact
load_checkpoint(store, id) == store[id].data

\* delete_checkpoint, lines 183-191: the file is removed if it exists, or
\* os.remove raises, which is caught and logged
delete_checkpoint(store, id, removed) ==
    IF removed THEN [i \in DOMAIN store \ {id} |-> store[i]] ELSE store

(***************************************************************************)
(* process_file_background, lines 351-645.                                 *)
(***************************************************************************)
JobInit ==
    /\ pc = "idle"
    /\ processed = 0
    /\ start_index = 0
    /\ phone_list = <<>>
    /\ full_list = <<>>
    /\ cache = <<>>
    /\ balance_exhausted = FALSE
    /\ last_checkpoint_save = 0
    /\ last_file_send = 0
    /\ backups = {}
    /\ checkpoints = <<>>
    /\ error = ""
    /\ reported = FALSE
    /\ crashes = 0
    /\ crash_at = None
    /\ api_log = <<>>

total_rows == Len(rows)

\* a fresh process: the module-level rate_limiter of line 142 is constructed
\* (and the history of the governor starts anew)
GovFresh ==
    /\ call_count' = 0
    /\ reset_time' = None
    /\ cycle_start_time' = None
    /\ lock' = ""
    /\ lock_waiters' = <<>>
    /\ gpc' = [c \in Callers |-> "idle"]
    /\ wait_time' = [c \in Callers |-> 0]
    /\ wake_at' = [c \in Callers |-> 0]
    /\ window_admits' = 0
    /\ admit_times' = <<>>
    /\ entered' = 0
    /\ pause_log' = <<>>
    /\ UNCHANGED now

\* the user the file came from
user_id == "u1"

\* what pd.read_excel / pd.read_csv (lines 356-361) can find
Files == {"ok", "unreadable", "no_column"}

\* line 370, `if checkpoint_data:`: load_checkpoint returned an object that
\* is not None and not empty
Truthy(d) == DOMAIN d # {}
Resuming ==
    /\ HasCheckpoint(checkpoints, checkpoint_id)
    /\ Truthy(load_checkpoint(checkpoints, checkpoint_id))

\* lines 372-375: a key the image lacks raises KeyError
CheckpointFields == {"phone_list", "full_list", "cache", "processed"}
SeedRaises ==
    /\ Resuming
    /\ ~(CheckpointFields \subseteq
            DOMAIN load_checkpoint(checkpoints, checkpoint_id))

\* (variant: the run is seeded from the checkpoint but starts at index 0)
SeedFromZero ==
    IF Resuming
    THEN LET checkpoint_data == load_checkpoint(checkpoints, checkpoint_id)
         IN  /\ phone_list' = checkpoint_data.phone_list
             /\ full_list' = checkpoint_data.full_list
             /\ cache' = checkpoint_data.cache
             /\ start_index' = 0
             /\ processed' = 0
             /\ balance_exhausted' =
                    IF "balance_exhausted" \in DOMAIN checkpoint_data
                    THEN checkpoint_data.balance_exhausted ELSE FALSE
    ELSE /\ phone_list' = <<>>
         /\ full_list' = <<>>
         /\ cache' = <<>>
         /\ start_index' = 0
         /\ processed' = 0
         /\ balance_exhausted' = FALSE
\* (variant: the exhausted flag is not restored from the checkpoint)
SeedForgetsFlag ==
    IF Resuming
    THEN LET checkpoint_data == load_checkpoint(checkpoints, checkpoint_id)
         IN  /\ phone_list' = checkpoint_data.phone_list
             /\ full_list' = checkpoint_data.full_list
             /\ cache' = checkpoint_data.cache
             /\ start_index' = checkpoint_data.processed
             /\ processed' = checkpoint_data.processed
             /\ balance_exhausted' = FALSE
    ELSE /\ phone_list' = <<>>
         /\ full_list' = <<>>
         /\ cache' = <<>>
         /\ start_index' = 0
         /\ processed' = 0
         /\ balance_exhausted' = FALSE
\* lines 367-388, 415-420: the checkpoint is looked up and the run is seeded
\* from it, or started from zero
Seed ==
    IF Resuming
    THEN LET checkpoint_data == load_checkpoint(checkpoints, checkpoint_id)
         IN  /\ phone_list' = checkpoint_data.phone_list
             /\ full_list' = checkpoint_data.full_list
             /\ cache' = checkpoint_data.cache
             /\ start_index' = checkpoint_data.processed
             /\ processed' = checkpoint_data.processed
             /\ balance_exhausted' =
                    IF "balance_exhausted" \in DOMAIN checkpoint_data
                    THEN checkpoint_data.balance_exhausted ELSE FALSE
    ELSE /\ phone_list' = <<>>
         /\ full_list' = <<>>
         /\ cache' = <<>>
         /\ start_index' = 0
         /\ processed' = 0
         /\ balance_exhausted' = FALSE

\* (variant: the counters go on from the index the run starts at)
ResetCountersAtIndex ==
    /\ last_checkpoint_save' = start_index'
    /\ last_file_send' = start_index'
\* lines 419-420: `last_checkpoint_save = 0` and `last_file_send = 0`, in a
\* fresh run and in a resumed one
ResetCounters ==
    /\ last_checkpoint_save' = 0
    /\ last_file_send' = 0

\* lines 354-420, 633-645: the task is started by handle_file (line 799), or
\* started again with the same checkpoint id after the process was killed.
\* The file is read, the checkpoint looked up and the run seeded, and the
\* resume notice (line 378) or the start notice (line 413) is sent; an
\* exception on the way, a failed send included, ends the job in the handler
\* of line 633, and a missing column ends it at line 363
StartJob ==
    /\ pc \in {"idle", "crashed"}
    /\ IF pc = "crashed" THEN GovFresh ELSE UNCHANGED gov_vars
    /\ \E sent \in BOOLEAN :
         LET cause == IF file = "unreadable" THEN "read_error"
                      ELSE IF file = "no_column"
                      THEN (IF sent THEN "no_column" ELSE "send_message")
                      ELSE IF SeedRaises THEN "KeyError"
                      ELSE IF ~sent THEN "send_message"
                      ELSE ""
         IN  /\ error' = cause
             /\ pc' = IF cause = "" THEN "running" ELSE "failed"
             /\ \E told \in BOOLEAN :
                  reported' = CASE cause = "" -> FALSE
                                [] cause = "no_column" -> TRUE
                                [] OTHER -> told
             /\ IF file = "ok" /\ ~SeedRaises
                THEN Seed
                ELSE UNCHANGED <<phone_list, full_list, cache, start_index,
                                 processed, balance_exhausted>>
    /\ ResetCounters
    /\ api_log' = <<>>
    /\ UNCHANGED <<rows, service, backups, checkpoints, file, active_tasks,
                   crashes, crash_at, last_saved>>

\* the key of the row the loop of line 434 is at (idx = processed)
inn == rows[processed + 1]

AtRow == pc = "running" /\ processed < total_rows

\* lines 437-441: the job is exhausted; `continue`
RowExhausted ==
    /\ AtRow
    /\ balance_exhausted
    /\ phone_list' = Append(phone_list, NO_MONEY)
    /\ full_list' = Append(full_list, NO_MONEY)
    /\ processed' = processed + 1
    /\ crash_at' = None
    /\ UNCHANGED <<gov_vars, pc, rows, service, start_index, cache, balance_exhausted,
                   last_checkpoint_save, last_file_send, backups, checkpoints, file, error, reported, active_tasks,
                   crashes, api_log, last_saved>>

\* (variant: the invalid-key outcome is appended to one output only)
RowInvalidOneList ==
    /\ AtRow
    /\ ~balance_exhausted
    /\ ~IsInn(inn)
    /\ phone_list' = Append(phone_list, NOT_INN)
    /\ processed' = processed + 1
    /\ crash_at' = None
    /\ UNCHANGED <<gov_vars, pc, rows, service, start_index, cache, balance_exhausted,
                   last_checkpoint_save, last_file_send, backups, checkpoints, file, error, reported, active_tasks,
                   crashes, api_log, full_list, last_saved>>
\* lines 443-447: the key is no INN; `continue`
RowInvalid ==
    /\ AtRow
    /\ ~balance_exhausted
    /\ ~IsInn(inn)
    /\ phone_list' = Append(phone_list, NOT_INN)
    /\ full_list' = Append(full_list, NOT_INN)
    /\ processed' = processed + 1
    /\ crash_at' = None
    /\ UNCHANGED <<gov_vars, pc, rows, service, start_index, cache, balance_exhausted,
                   last_checkpoint_save, last_file_send, backups, checkpoints, file, error, reported, active_tasks,
                   crashes, api_log, last_saved>>

\* history of save_checkpoint: the data of the last successful save per id
RecordSave(hist, id, data, outcome) ==
    IF outcome = "saved"
    THEN [i \in DOMAIN hist \cup {id} |-> IF i = id THEN data ELSE hist[i]]
    ELSE hist

\* lines 489-499: the checkpoint step that ends an iteration which did not
\* `continue`; p, phones, fulls, c, b are the locals after the row
\* (variant: the save comes one row late)
CheckpointDueLate(p) == p - last_checkpoint_save > CHECKPOINT_EVERY
CheckpointDue(p) == p - last_checkpoint_save >= CHECKPOINT_EVERY
\* (variant: the exhausted flag is saved as False)
CheckpointStepNoFlag(p, phones, fulls, c, b, outcome) ==
    IF CheckpointDue(p)
    THEN LET checkpoint_data ==
                 [phone_list |-> phones, full_list |-> fulls,
                  cache |-> c, processed |-> p, balance_exhausted |-> FALSE]
         IN  /\ checkpoints' = save_checkpoint(checkpoints, checkpoint_id,
                                               checkpoint_data, outcome)
             /\ last_saved' = RecordSave(last_saved, checkpoint_id,
                                         checkpoint_data, outcome)
             /\ last_checkpoint_save' = p
    ELSE UNCHANGED <<checkpoints, last_checkpoint_save, last_saved>>
\* (variant: the outputs are saved as they were before the row)
CheckpointStepStale(p, phones, fulls, c, b, outcome) ==
    IF CheckpointDue(p)
    THEN LET checkpoint_data ==
                 [phone_list |-> phone_list, full_list |-> full_list,
                  cache |-> c, processed |-> p, balance_exhausted |-> b]
         IN  /\ checkpoints' = save_checkpoint(checkpoints, checkpoint_id,
                                               checkpoint_data, outcome)
             /\ last_saved' = RecordSave(last_saved, checkpoint_id,
                                         checkpoint_data, outcome)
             /\ last_checkpoint_save' = p
    ELSE UNCHANGED <<checkpoints, last_checkpoint_save, last_saved>>
CheckpointStep(p, phones, fulls, c, b, outcome) ==
    IF CheckpointDue(p)
    THEN LET checkpoint_data ==
                 [phone_list |-> phones, full_list |-> fulls,
                  cache |-> c, processed |-> p, balance_exhausted |-> b]
         IN  /\ checkpoints' = save_checkpoint(checkpoints, checkpoint_id,
                                               checkpoint_data, outcome)
             /\ last_saved' = RecordSave(last_saved, checkpoint_id,
                                         checkpoint_data, outcome)
             /\ last_checkpoint_save' = p
    ELSE UNCHANGED <<checkpoints, last_checkpoint_save, last_saved>>

\* line 509, `processed - last_file_send >= 100 and processed > 0`
BackupDue(p) == p - last_file_send >= BACKUP_EVERY /\ p > 0

\* lines 508-546: the backup step that follows the checkpoint step.  The
\* partial result is written to temp/backup_<id>_<p>.xlsx and sent; once it is
\* sent, last_file_send is set and, when p > 200, the file of position
\* p - 100 is removed if it exists.  An exception on the way (a failed send)
\* is logged and leaves last_file_send as it was
BackupStep(p) ==
    IF BackupDue(p)
    THEN \E sent \in BOOLEAN :
           IF sent
           THEN /\ last_file_send' = p
                /\ backups' = IF p > BACKUP_KEEP_FROM
                              THEN (backups \cup {p}) \ {p - BACKUP_EVERY}
                              ELSE backups \cup {p}
           ELSE UNCHANGED <<last_file_send, backups>>
    ELSE UNCHANGED <<last_file_send, backups>>

\* lines 450-458, 487-546: the key is in the cache and its entry is replayed
RowCached ==
    /\ AtRow
    /\ ~balance_exhausted
    /\ IsInn(inn)
    /\ inn \in DOMAIN cache
    /\ LET entry == cache[inn]
           b == IF entry[3] THEN TRUE ELSE balance_exhausted
           phones == Append(phone_list, IF entry[3] THEN NO_MONEY ELSE entry[1])
           fulls == Append(full_list, IF entry[3] THEN NO_MONEY ELSE entry[2])
       IN  /\ balance_exhausted' = b
           /\ phone_list' = phones
           /\ full_list' = fulls
           /\ processed' = processed + 1
           /\ \E outcome \in SaveOutcomes :
                CheckpointStep(processed + 1, phones, fulls, cache, b, outcome)
           /\ BackupStep(processed + 1)
    /\ crash_at' = None
    /\ UNCHANGED <<gov_vars, pc, rows, service, start_index, cache, file, error,
                   reported, active_tasks, crashes, api_log>>

\* lines 459-461, 260: the key is not in the cache; dyxless_query is called
\* and enters the governor
RowQuery ==
    /\ AtRow
    /\ ~balance_exhausted
    /\ IsInn(inn)
    /\ inn \notin DOMAIN cache
    /\ pc' = "query"
    /\ Enter("job")
    /\ crash_at' = None
    /\ UNCHANGED <<rows, service, processed, start_index, phone_list, full_list,
                   cache, balance_exhausted, last_checkpoint_save, last_file_send,
                   backups, checkpoints, file, error, reported, active_tasks,
                   crashes, api_log, last_saved>>

\* (variant: the entry is not stored)
CachePutNothing(c, k, entry) == c
\* (variant: the entry of a failed query is not stored)
CachePutAnswers(c, k, entry) ==
    IF entry[1] = QUERY_ERROR \/ entry[2][1] = "oshibka: "
    THEN c
    ELSE [x \in DOMAIN c \cup {k} |-> IF x = k THEN entry ELSE c[x]]
\* the cache after `cache[inn] = entry`
CachePut(c, k, entry) ==
    [x \in DOMAIN c \cup {k} |-> IF x = k THEN entry ELSE c[x]]

\* the ways the service answers the next call
Answers == IF service = "any" THEN Responses ELSE {service}

\* lines 262-294, 463-485: the governor has admitted the call; the query is
\* sent, its answer classified, cached and appended.  The iteration then
\* sleeps half a second (line 479), or, when handling the answer raised
\* (line 481), goes on to its end at once
QueryDone ==
    /\ pc = "query"
    /\ gpc["job"] = "idle"
    /\ \E resp \in Answers :
         LET result == dyxless_query(inn, resp)
             entry == EntryFor(result)
             b == IF entry[3] THEN TRUE ELSE balance_exhausted
             c == CachePut(cache, inn, entry)
             phones == Append(phone_list, entry[1])
             fulls == Append(full_list, entry[2])
         IN  /\ api_log' = [k \in DOMAIN api_log \cup {inn} |->
                              IF k = inn
                              THEN Append(IF k \in DOMAIN api_log
                                          THEN api_log[k] ELSE <<>>, resp)
                              ELSE api_log[k]]
             /\ balance_exhausted' = b
             /\ cache' = c
             /\ phone_list' = phones
             /\ full_list' = fulls
             /\ IF result.is_dict
                THEN /\ pc' = "throttle"
                     /\ UNCHANGED <<processed, checkpoints, last_checkpoint_save,
                                    last_saved, last_file_send, backups>>
                ELSE /\ pc' = "running"
                     /\ processed' = processed + 1
                     /\ \E outcome \in SaveOutcomes :
                          CheckpointStep(processed + 1, phones, fulls, c, b, outcome)
                     /\ BackupStep(processed + 1)
    /\ UNCHANGED <<gov_vars, rows, service, start_index, file, error, reported,
                   active_tasks, crashes, crash_at>>

\* lines 479, 487-546: the sleep after the query is over; the row is counted
\* and the iteration ends with the checkpoint step and the backup step
RowEnd ==
    /\ pc = "throttle"
    /\ pc' = "running"
    /\ processed' = processed + 1
    /\ \E outcome \in SaveOutcomes :
         CheckpointStep(processed + 1, phone_list, full_list, cache,
                        balance_exhausted, outcome)
    /\ BackupStep(processed + 1)
    /\ UNCHANGED <<gov_vars, rows, service, start_index, phone_list, full_list,
                   cache, balance_exhausted, file, error, reported, active_tasks,
                   crashes, crash_at, api_log>>

\* what writing the result file and bot.send_document (lines 591-610) end in
Deliveries == {"sent", "write_failed", "send_failed"}

\* lines 587-610, 633-635: the loop is over; the outputs become columns of the
\* frame (which raises unless their length is the frame's), the result file
\* is written and sent.  An exception ends the job in the handler of line
\* 633, which sends the requester a message, a send that can fail as well
FinalizeDeliver ==
    /\ pc = "running"
    /\ processed >= total_rows
    /\ IF Len(phone_list) = total_rows /\ Len(full_list) = total_rows
       THEN \E d \in Deliveries :
              /\ pc' = IF d = "sent" THEN "delivered" ELSE "failed"
              /\ error' = CASE d = "sent" -> ""
                            [] d = "write_failed" -> "write_error"
                            [] d = "send_failed" -> "send_document"
              /\ \E told \in BOOLEAN :
                   reported' = IF d = "sent" THEN FALSE ELSE told
       ELSE /\ pc' = "failed"
            /\ error' = "ValueError"
            /\ reported' \in BOOLEAN
    /\ UNCHANGED <<gov_vars, rows, service, processed, start_index, phone_list,
                   full_list, cache, balance_exhausted, last_checkpoint_save,
                   last_file_send, backups, checkpoints, file, active_tasks,
                   crashes, crash_at, api_log, last_saved>>

\* lines 612-619: the checkpoint is deleted (a failure is logged) and the
\* progress message removed
FinalizeDelete ==
    /\ pc = "delivered"
    /\ pc' = "cleaned"
    /\ \E removed \in BOOLEAN :
         checkpoints' = delete_checkpoint(checkpoints, checkpoint_id, removed)
    /\ last_saved' = [i \in DOMAIN last_saved \ {checkpoint_id} |-> last_saved[i]]
    /\ UNCHANGED <<gov_vars, rows, service, processed, start_index, phone_list,
                   full_list, cache, balance_exhausted, last_checkpoint_save,
                   last_file_send, backups, file, error, reported, active_tasks,
                   crashes, crash_at, api_log>>

\* `del active_tasks[user_id]` when the key is there
Release(tasks, u) == [x \in DOMAIN tasks \ {u} |-> tasks[x]]

\* lines 621-645: the user's entry in active_tasks is removed, then the
\* backup files (a failure is logged), the uploaded file and the result file
FinalizeRelease ==
    /\ pc = "cleaned"
    /\ pc' = "done"
    /\ active_tasks' = Release(active_tasks, user_id)
    /\ \E swept \in BOOLEAN : backups' = IF swept THEN {} ELSE backups
    /\ UNCHANGED <<gov_vars, rows, service, processed, start_index, phone_list,
                   full_list, cache, balance_exhausted, last_checkpoint_save,
                   last_file_send, checkpoints, file, error, reported, crashes,
                   crash_at, api_log, last_saved>>

\* the process is killed while the job runs; what is on disk stays
Crash ==
    /\ pc \in {"running", "query", "throttle"}
    /\ crashes < MaxCrashes
    /\ pc' = "crashed"
    /\ crashes' = crashes + 1
    /\ crash_at' = processed
    /\ UNCHANGED <<gov_vars, rows, service, processed, start_index, phone_list,
                   full_list, cache, balance_exhausted, last_checkpoint_save,
                   last_file_send, backups, checkpoints, file, error, reported,
                   active_tasks, api_log, last_saved>>

\* the uploads of the model and the users they can come from
Uploads == {"m1", "m2"}
Users == {"u1", "u2"}

\* nothing has been returned
NoReturn == [call |-> "", arg |-> 0, value |-> 0]

\* no result is held
NoResult == [is_dict |-> FALSE, status |-> FALSE, counts |-> 0, message |-> <<>>,
             data |-> <<>>]

\* no upload has arrived, no query method has been called
SideInit ==
    /\ sender = [m \in Uploads |-> user_id]
    /\ fname = [m \in Uploads |-> <<"inn", ".xlsx">>]
    /\ tid = [m \in Uploads |-> <<>>]
    /\ hpc = [m \in Uploads |-> "waiting"]
    /\ tpc = [m \in Uploads |-> "none"]
    /\ returned = NoReturn
    /\ raw = NoResult
    /\ last_saved = <<>>

\* a step of wait_if_needed, seen from the rest of the program
GovStep ==
    /\ returned' = NoReturn
    /\ UNCHANGED <<job_vars, upload_vars, raw, last_saved>>

\* a governor step of the job's pending call
JobGov(A) == A /\ pc = "query" /\ UNCHANGED <<job_vars, side_vars>>

\* some caller is inside asyncio.sleep
Asleep == \E c \in Callers : gpc[c] = "sleep" /\ now < wake_at[c]

\* (variant: get_status starts a new window once the old one has elapsed)
GetStatusResetting ==
    /\ returned' = [call |-> "get_status", arg |-> 0, value |-> get_status]
    /\ IF reset_time # None /\ now - reset_time >= wait_seconds
       THEN call_count' = 0 /\ reset_time' = None
       ELSE UNCHANGED <<call_count, reset_time>>
    /\ UNCHANGED <<cycle_start_time, now, lock, lock_waiters, gpc, wait_time,
                   wake_at, admit_times, window_admits, entered, pause_log,
                   job_vars, upload_vars, raw, last_saved>>
\* check_limit_handler, line 680 (and the progress update, line 562):
\* get_status is called, at any moment, also while a caller is paused
GetStatus ==
    /\ returned' = [call |-> "get_status", arg |-> 0, value |-> get_status]
    /\ UNCHANGED <<gov_vars, job_vars, upload_vars, raw, last_saved>>

\* the numbers of requests estimate_time is asked about
EstimateInputs == (0 - 1)..MaxEstimate

\* line 395: estimate_time is called
EstimateTime(n) ==
    /\ returned' = [call |-> "estimate_time", arg |-> n, value |-> estimate_time(n)]
    /\ UNCHANGED <<gov_vars, job_vars, upload_vars, raw, last_saved>>

GovNext ==
    \/ \E c \in Callers : entered < MaxEnter /\ Enter(c) /\ GovStep
    \/ \E c \in Callers : Wake(c) /\ GovStep
    \/ \E c \in Callers : PauseNotified(c) /\ GovStep
    \/ \E c \in Callers : SleepOver(c) /\ GovStep
    \/ \E c \in Callers : ProgressNotified(c) /\ GovStep
    \/ \E c \in Callers : DoneNotified(c) /\ GovStep
    \/ now < MaxTime /\ Tick /\ GovStep
    \/ GetStatus
    \/ \E n \in EstimateInputs : EstimateTime(n)

\* time advances: as far as the model follows it, and for as long as a
\* caller sleeps
TimePasses == (now < MaxTime \/ Asleep) /\ Tick /\ GovStep

\* the governor under concurrent callers, with time that does not stop
LiveNext ==
    \/ \E c \in Callers : entered < MaxEnter /\ Enter(c) /\ GovStep
    \/ \E c \in Callers : Wake(c) /\ GovStep
    \/ \E c \in Callers : PauseNotified(c) /\ GovStep
    \/ \E c \in Callers : SleepOver(c) /\ GovStep
    \/ \E c \in Callers : ProgressNotified(c) /\ GovStep
    \/ \E c \in Callers : DoneNotified(c) /\ GovStep
    \/ TimePasses

\* the event loop runs every task that is ready (the lock wakes its first
\* waiter, a callback that was awaited returns, a sleep that is over ends),
\* and time advances
LiveFairness ==
    /\ \A c \in Callers : WF_vars(Wake(c) /\ GovStep)
    /\ \A c \in Callers : WF_vars(PauseNotified(c) /\ GovStep)
    /\ \A c \in Callers : WF_vars(SleepOver(c) /\ GovStep)
    /\ \A c \in Callers : WF_vars(ProgressNotified(c) /\ GovStep)
    /\ \A c \in Callers : WF_vars(DoneNotified(c) /\ GovStep)
    /\ WF_vars(TimePasses)

\* the window that is open will still be open a tick from now
WindowOpen == reset_time # None /\ now + 1 < reset_time + wait_seconds

\* one job's calls, one after the other, each arriving before the window
\* of the calls before it has elapsed
RunNext ==
    \/ entered < MaxEnter /\ Enter("job") /\ GovStep
    \/ PauseNotified("job") /\ GovStep
    \/ SleepOver("job") /\ GovStep
    \/ ProgressNotified("job") /\ GovStep
    \/ DoneNotified("job") /\ GovStep
    \/ (Asleep \/ WindowOpen) /\ Tick /\ GovStep

\* what a step of the job leaves alone
job_side == <<upload_vars, returned, raw>>

Next ==
    \/ StartJob /\ UNCHANGED job_side
    \/ RowExhausted /\ UNCHANGED job_side
    \/ RowInvalid /\ UNCHANGED job_side
    \/ RowCached /\ UNCHANGED job_side
    \/ RowQuery /\ UNCHANGED job_side
    \/ QueryDone /\ UNCHANGED job_side
    \/ RowEnd /\ UNCHANGED job_side
    \/ FinalizeDeliver /\ UNCHANGED job_side
    \/ FinalizeDelete /\ UNCHANGED job_side
    \/ FinalizeRelease /\ UNCHANGED job_side
    \/ Crash /\ UNCHANGED job_side
    \/ JobGov(PauseNotified("job"))
    \/ JobGov(SleepOver("job"))
    \/ JobGov(ProgressNotified("job"))
    \/ JobGov(DoneNotified("job"))
    \/ JobGov(Asleep /\ Tick)

\* one single query has been admitted when the file is uploaded
GovUsedOnce ==
    /\ call_count = 1
    /\ reset_time = 0
    /\ cycle_start_time = 0
    /\ now = 0
    /\ lock = ""
    /\ lock_waiters = <<>>
    /\ gpc = [c \in Callers |-> "idle"]
    /\ wait_time = [c \in Callers |-> 0]
    /\ wake_at = [c \in Callers |-> 0]
    /\ admit_times = <<0>>
    /\ window_admits = 1
    /\ entered = 1
    /\ pause_log = <<>>

\* handle_file has registered the task (line 798) and started it
Registered == active_tasks = [u \in {user_id} |-> checkpoint_id]

Init ==
    /\ GovInit \/ GovUsedOnce
    /\ JobInit
    /\ service = "any"
    /\ rows \in RowInputs
    /\ file \in Files
    /\ Registered
    /\ SideInit

\* no file has been uploaded
InitGov ==
    /\ GovInit
    /\ JobInit
    /\ service = "any"
    /\ rows = <<>>
    /\ file = "ok"
    /\ active_tasks = <<>>
    /\ SideInit

(***************************************************************************)
(* handle_file, lines 771-811.  The dispatcher runs the handler of every   *)
(* incoming message as a task of its own, so the handlers of two uploads   *)
(* interleave at their awaits.  The jobs they start are followed here only *)
(* to their end (Spec follows one job row by row).                         *)
(***************************************************************************)
\* the names of the files sent
FileNames == {<<"inn", ".xlsx">>, <<"inn", ".csv">>, <<"inn", ".txt">>}

\* str.endswith
endswith(name, suffix) == name # <<>> /\ name[Len(name)] = suffix

\* create_checkpoint_id, lines 152-155: the first 12 hex digits of the md5
\* of "{user_id}_{file_name}_{int(time.time())}"; the digest is kept as the
\* text it is taken of
create_checkpoint_id(u, file_name, t) == <<u, file_name, t>>

\* `active_tasks[user_id] = checkpoint_id`
Register(tasks, u, id) ==
    [x \in DOMAIN tasks \cup {u} |-> IF x = u THEN id ELSE tasks[x]]

\* lines 773-791: the message arrives; the handler answers and returns when
\* the user has an entry in active_tasks or the file has another extension,
\* and awaits the download otherwise
HandleArrive(m) ==
    /\ hpc[m] = "waiting"
    /\ hpc' = [hpc EXCEPT ![m] =
                 IF sender[m] \in DOMAIN active_tasks THEN "rejected"
                 ELSE IF ~(endswith(fname[m], ".xlsx") \/ endswith(fname[m], ".csv"))
                 THEN "bad_extension"
                 ELSE "download"]
    /\ UNCHANGED <<gov_vars, job_locals, active_tasks, sender, fname, tid, tpc,
                   returned, raw, last_saved>>

\* lines 791-799: the download and the answer "file received" are over (or
\* one of them raised and the handler ends); the checkpoint id is made, the
\* user is entered in active_tasks and the task is created
HandleStart(m) ==
    /\ hpc[m] = "download"
    /\ \E ok \in BOOLEAN :
         IF ok
         THEN /\ hpc' = [hpc EXCEPT ![m] = "started"]
              /\ active_tasks' =
                    Register(active_tasks, sender[m],
                             create_checkpoint_id(sender[m], fname[m], now))
              /\ tid' = [tid EXCEPT ![m] =
                             create_checkpoint_id(sender[m], fname[m], now)]
              /\ tpc' = [tpc EXCEPT ![m] = "running"]
         ELSE /\ hpc' = [hpc EXCEPT ![m] = "aborted"]
              /\ UNCHANGED <<active_tasks, tid, tpc>>
    /\ UNCHANGED <<gov_vars, job_locals, sender, fname, returned, raw, last_saved>>

\* lines 587-631: the job of upload m has delivered its result; the entry of
\* its user is removed from active_tasks if there is one
TaskSucceed(m) ==
    /\ tpc[m] = "running"
    /\ tpc' = [tpc EXCEPT ![m] = "done"]
    /\ active_tasks' = Release(active_tasks, sender[m])
    /\ UNCHANGED <<gov_vars, job_locals, sender, fname, tid, hpc, returned, raw,
                   last_saved>>

\* lines 361-363, 633-645: the job of upload m has ended at the missing
\* column or in the exception handler; only files are removed
TaskFail(m) ==
    /\ tpc[m] = "running"
    /\ tpc' = [tpc EXCEPT ![m] = "failed"]
    /\ UNCHANGED <<gov_vars, job_locals, active_tasks, sender, fname, tid, hpc,
                   returned, raw, last_saved>>

UploadNext ==
    \/ \E m \in Uploads : HandleArrive(m)
    \/ \E m \in Uploads : HandleStart(m)
    \/ \E m \in Uploads : TaskSucceed(m)
    \/ \E m \in Uploads : TaskFail(m)
    \/ now < MaxTime /\ Tick /\ UNCHANGED <<job_vars, side_vars>>

\* the bot has started; the uploads to come are from any users, of any files
InitUpload ==
    /\ GovInit
    /\ JobInit
    /\ service = "any"
    /\ rows = <<>>
    /\ file = "ok"
    /\ active_tasks = <<>>
    /\ sender \in [Uploads -> Users]
    /\ fname \in [Uploads -> FileNames]
    /\ hpc = [m \in Uploads |-> "waiting"]
    /\ tid = [m \in Uploads |-> <<>>]
    /\ tpc = [m \in Uploads |-> "none"]
    /\ returned = NoReturn
    /\ raw = NoResult
    /\ last_saved = <<>>

(***************************************************************************)
(* The checkpoint store under any sequence of save, load and delete calls, *)
(* and a job started on what the store holds.                              *)
(***************************************************************************)
StoreIds == {checkpoint_id, "c0ffee000002"}

\* objects handed to save_checkpoint: two images as line 491 builds them, an
\* image without the exhausted flag, an image without the outputs, an empty
\* dict
ImageA ==
    [phone_list |-> <<NO_PHONES>>, full_list |-> <<NOTHING_FOUND>>,
     cache |-> [k \in {"7736207543"} |-> <<NO_PHONES, NOTHING_FOUND, FALSE>>],
     processed |-> 1, balance_exhausted |-> FALSE]
ImageB ==
    [phone_list |-> <<NO_MONEY, NO_MONEY>>, full_list |-> <<NO_MONEY, NO_MONEY>>,
     cache |-> [k \in {"7736207543"} |-> <<NO_MONEY, NO_MONEY, TRUE>>],
     processed |-> 2, balance_exhausted |-> TRUE]
ImageNoFlag ==
    [phone_list |-> <<NO_PHONES>>, full_list |-> <<NOTHING_FOUND>>,
     cache |-> [k \in {"7736207543"} |-> <<NO_PHONES, NOTHING_FOUND, FALSE>>],
     processed |-> 1]
ImageNoOutputs ==
    [cache |-> [k \in {"7736207543"} |-> <<NO_PHONES, NOTHING_FOUND, FALSE>>],
     processed |-> 1, balance_exhausted |-> FALSE]
Images == {ImageA, ImageB, ImageNoFlag, ImageNoOutputs, EmptyDict}

\* checkpoint_manager.save_checkpoint(id, data)
StoreSave(id, data, outcome) ==
    /\ checkpoints' = save_checkpoint(checkpoints, id, data, outcome)
    /\ last_saved' =
          IF outcome = "saved"
          THEN [i \in DOMAIN last_saved \cup {id} |->
                   IF i = id THEN data ELSE last_saved[i]]
          ELSE last_saved
    /\ returned' = [call |-> "save_checkpoint", arg |-> id,
                    value |-> outcome = "saved"]
    /\ UNCHANGED <<gov_vars, pc, rows, service, processed, start_index, phone_list,
                   full_list, cache, balance_exhausted, last_checkpoint_save, last_file_send, backups,
                   file, error, reported, crashes, crash_at, api_log, active_tasks,
                   upload_vars, raw>>

\* checkpoint_manager.load_checkpoint(id)
StoreLoad(id) ==
    /\ returned' =
          [call |-> "load_checkpoint", arg |-> id,
           value |-> IF HasCheckpoint(checkpoints, id)
                     THEN [found |-> TRUE, data |-> load_checkpoint(checkpoints, id)]
                     ELSE [found |-> FALSE, data |-> EmptyDict]]
    /\ UNCHANGED <<gov_vars, job_vars, upload_vars, raw, last_saved>>

\* checkpoint_manager.delete_checkpoint(id)
StoreDelete(id, removed) ==
    /\ checkpoints' = delete_checkpoint(checkpoints, id, removed)
    /\ last_saved' = [i \in DOMAIN last_saved \ {id} |-> last_saved[i]]
    /\ returned' = NoReturn
    /\ UNCHANGED <<gov_vars, pc, rows, service, processed, start_index, phone_list,
                   full_list, cache, balance_exhausted, last_checkpoint_save, last_file_send, backups,
                   file, error, reported, crashes, crash_at, api_log, active_tasks,
                   upload_vars, raw>>

\* the process is killed inside save_checkpoint(id, data): before open (the
\* file is as it was), between open(path, 'wb') and the end of pickle.dump
\* (the file is cut short), or after the dump (the file is written); `stage`
\* names the save outcome that leaves the same file
StoreKilledInSave(id, data, stage) ==
    /\ checkpoints' = save_checkpoint(checkpoints, id, data, stage)
    /\ last_saved' = RecordSave(last_saved, id, data, stage)
    /\ returned' =
          [call |-> "killed_save", arg |-> id,
           value |-> [had |-> HasCheckpoint(checkpoints, id),
                      old |-> IF HasCheckpoint(checkpoints, id)
                              THEN load_checkpoint(checkpoints, id) ELSE EmptyDict,
                      new |-> data]]
    /\ pc' = IF pc = "running" THEN "crashed" ELSE pc
    /\ UNCHANGED <<gov_vars, rows, service, processed, start_index, phone_list,
                   full_list, cache, balance_exhausted, last_checkpoint_save,
                   last_file_send, backups, file, error, reported, crashes,
                   crash_at, api_log, active_tasks, upload_vars, raw>>

StoreNext ==
    \/ \E id \in StoreIds, data \in Images, outcome \in SaveOutcomes :
          StoreSave(id, data, outcome)
    \/ \E id \in StoreIds : StoreLoad(id)
    \/ \E id \in StoreIds, removed \in BOOLEAN : StoreDelete(id, removed)
    \/ \E id \in StoreIds, data \in {ImageA, ImageB}, stage \in SaveOutcomes :
          StoreKilledInSave(id, data, stage)
    \/ StartJob /\ returned' = NoReturn /\ UNCHANGED <<upload_vars, raw>>

\* the checkpoints directory is empty; a file has been uploaded
InitStore ==
    /\ GovInit
    /\ JobInit
    /\ service = "any"
    /\ rows = RowsOf(<<"7736207543">>, BlockLen)
    /\ file = "ok"
    /\ Registered
    /\ SideInit

(***************************************************************************)
(* A job over a file long enough for two backup shipments, not killed.     *)
(***************************************************************************)
LongInputs == { RowsOf(p, LongRows) : p \in {<<"7736207543">>,
                                              <<"7736207543", "12345">>} }

InitLong ==
    /\ GovInit
    /\ JobInit
    /\ service \in {"found", "402"}
    /\ rows \in LongInputs
    /\ file = "ok"
    /\ Registered
    /\ SideInit

LongNext ==
    \/ StartJob /\ UNCHANGED job_side
    \/ RowExhausted /\ UNCHANGED job_side
    \/ RowInvalid /\ UNCHANGED job_side
    \/ RowCached /\ UNCHANGED job_side
    \/ RowQuery /\ UNCHANGED job_side
    \/ QueryDone /\ UNCHANGED job_side
    \/ RowEnd /\ UNCHANGED job_side
    \/ FinalizeDeliver /\ UNCHANGED job_side
    \/ FinalizeDelete /\ UNCHANGED job_side
    \/ FinalizeRelease /\ UNCHANGED job_side

\* the moments the job is killed at: a checkpoint was written, and no more
\* than BACKUP_EVERY rows are processed
KillWindow == last_checkpoint_save > 0 /\ processed <= BACKUP_EVERY

\* a job over a file of ResumeRows rows with one key, found by the service,
\* killed and restarted
InitResume ==
    /\ GovInit
    /\ JobInit
    /\ service = "found"
    /\ rows = RowsOf(<<"7736207543">>, ResumeRows)
    /\ file = "ok"
    /\ Registered
    /\ SideInit

ResumeNext ==
    \/ StartJob /\ UNCHANGED job_side
    \/ RowCached /\ UNCHANGED job_side
    \/ RowQuery /\ UNCHANGED job_side
    \/ QueryDone /\ UNCHANGED job_side
    \/ RowEnd /\ UNCHANGED job_side
    \/ FinalizeDeliver /\ UNCHANGED job_side
    \/ FinalizeDelete /\ UNCHANGED job_side
    \/ FinalizeRelease /\ UNCHANGED job_side
    \/ KillWindow /\ Crash /\ UNCHANGED job_side

(***************************************************************************)
(* A job over a file of different keys, against a service that answers     *)
(* every call the same way.                                                *)
(***************************************************************************)
\* DistinctRows rows: different INNs, with a value that is no INN in row j,
\* and the INN of the first row again in the last row
DistinctInput(j) ==
    [i \in 1..DistinctRows |->
        IF i = DistinctRows THEN InnTable[1]
        ELSE IF i = j THEN "12345"
        ELSE InnTable[i]]
DistinctInputs == {DistinctInput(CHECKPOINT_EVERY), DistinctInput(DistinctRows - 1)}

InitDistinct ==
    /\ GovInit
    /\ JobInit
    /\ service \in Responses
    /\ rows \in DistinctInputs
    /\ file = "ok"
    /\ Registered
    /\ SideInit

(***************************************************************************)
(* The result formatter applied, any number of times, to a result object   *)
(* its caller holds.                                                       *)
(***************************************************************************)
\* the results dyxless_query can hand to the formatter
RawResults ==
    { dyxless_query(k, r) :
        k \in Keys \cup {InnTable[i] : i \in 1..FormatKeys},
        r \in Responses \ {"not_dict"} }

\* format_full_result(raw)
FormatFull ==
    /\ returned' = [call |-> "format_full_result", arg |-> 0,
                    value |-> format_full_result(raw)]
    /\ raw' = PopTableNames(raw)
    /\ UNCHANGED <<gov_vars, job_vars, upload_vars, last_saved>>

\* extract_phones_from_result(raw)
ExtractPhones ==
    /\ returned' = [call |-> "extract_phones_from_result", arg |-> 0,
                    value |-> extract_phones_from_result(raw)]
    /\ UNCHANGED <<gov_vars, job_vars, upload_vars, raw, last_saved>>

FormatNext == FormatFull \/ ExtractPhones

InitFormat ==
    /\ GovInit
    /\ JobInit
    /\ service = "any"
    /\ rows = <<>>
    /\ file = "ok"
    /\ active_tasks = <<>>
    /\ sender = [m \in Uploads |-> user_id]
    /\ fname = [m \in Uploads |-> <<"inn", ".xlsx">>]
    /\ tid = [m \in Uploads |-> <<>>]
    /\ hpc = [m \in Uploads |-> "waiting"]
    /\ tpc = [m \in Uploads |-> "none"]
    /\ returned = NoReturn
    /\ raw \in RawResults
    /\ last_saved = <<>>

\* the batch job: one run of process_file_background, killed and restarted
Spec == Init /\ [][Next]_vars

\* the batch job over a file of different keys
SpecDistinct == InitDistinct /\ [][Next]_vars

\* the formatter on one result object
SpecFormat == InitFormat /\ [][FormatNext]_vars

\* the batch job over a long file
SpecLong == InitLong /\ [][LongNext]_vars

\* the batch job over a long file, killed and restarted
SpecLongResume == InitResume /\ [][ResumeNext]_vars

\* the checkpoint store and the start of a job
SpecStore == InitStore /\ [][StoreNext]_vars

\* the upload handler under concurrent uploads
SpecUpload == InitUpload /\ [][UploadNext]_vars

\* the governor alone, under concurrent callers
SpecGov == InitGov /\ [][GovNext]_vars

\* the governor under concurrent callers, scheduled fairly
SpecGovLive == InitGov /\ [][LiveNext]_vars /\ LiveFairness

\* the governor under the calls of one job
SpecRun == InitGov /\ [][RunNext]_vars

(***************************************************************************)
(* Claims about the governor, checked under SpecGov.                       *)
(***************************************************************************)
\* C1: between a window start (reset_time being set) and the next reset at
\* most max_calls calls are admitted; the window is reset for call number
\* max_calls+1 only once wait_seconds have passed since reset_time, and the
\* reset sets call_count to 1 and reset_time to the current time.
C1_QuotaPerWindow ==
    /\ [](window_admits <= max_calls)
    /\ [][(reset_time # None /\ reset_time' # reset_time)
            => /\ window_admits = max_calls
               /\ now' >= reset_time + wait_seconds
               /\ call_count' = 1
               /\ reset_time' = now']_vars

\* C1 witness: call number max_calls+1 was admitted after a caller slept
\* through the rest of the window
C1_Witness ==
    /\ Len(admit_times) = max_calls + 1
    /\ \E c \in Callers : wake_at[c] > 0
    /\ call_count = 1
    /\ reset_time >= wait_seconds

\* C2: rolling window: every interval shorter than wait_seconds holds at
\* most max_calls admitted calls, i.e. any max_calls+1 consecutive
\* admissions span at least wait_seconds.
C2_RollingWindow ==
    \A i \in 1..Len(admit_times) :
        i + max_calls <= Len(admit_times)
            => admit_times[i + max_calls] - admit_times[i] >= wait_seconds

(***************************************************************************)
(* Claims about the batch runner, checked under Spec.                      *)
(***************************************************************************)
Running == pc \in {"running", "query"}

\* the loop is at a row that is resolved from the cache
AtCachedRow ==
    /\ AtRow /\ ~balance_exhausted
    /\ isdigit(Chars(inn)) /\ Len(Chars(inn)) \in {10, 12}
    /\ inn \in DOMAIN cache

\* C3: within one run the external lookup is invoked at most once per key; a
\* row whose key is in the cache replays the cached entry with no governor
\* acquire and no external call; a cache entry once written is never changed.
C3_OneCallPerKey ==
    /\ [](\A k \in DOMAIN api_log : Len(api_log[k]) <= 1)
    /\ [][(AtCachedRow /\ pc' # "crashed")
            => /\ phone_list' = Append(phone_list, cache[inn][1])
               /\ full_list' = Append(full_list, cache[inn][2])
               /\ UNCHANGED <<api_log, entered, call_count, cache>>]_vars
    /\ [][Running
            => \A k \in DOMAIN cache :
                  k \in DOMAIN cache' /\ cache'[k] = cache[k]]_vars

\* C3 witness: a key was looked up once and the next row, carrying the same
\* key, has been replayed from the cache
C3_Witness ==
    /\ pc = "running" /\ ~balance_exhausted /\ processed >= 2
    /\ rows[processed] = rows[processed - 1]
    /\ rows[processed] \in DOMAIN api_log
    /\ Len(api_log[rows[processed]]) = 1
    /\ phone_list[processed] = cache[rows[processed]][1]

\* the responses that are transient errors: a timeout or transport error, an
\* unexpected HTTP status, an exception while the answer is handled
Transient == {"timeout", "500", "not_dict"}

\* C4: a key whose call ended in a transient error has no cache entry (so a
\* later row with the same key issues a new call).
C4_NoCachePoisoning ==
    Running =>
        \A k \in DOMAIN api_log :
            api_log[k][Len(api_log[k])] \in Transient => k \notin DOMAIN cache

\* some call of the current run was answered with the exhaustion signal
ExhaustionSignalled ==
    \E k \in DOMAIN api_log : \E i \in 1..Len(api_log[k]) : api_log[k][i] = "402"

\* C5: once a call of the run yields the exhaustion signal the exhausted flag
\* is true and stays true for the rest of the run, and every later row gets
\* the fixed exhaustion outcome in both outputs, with no external call and no
\* governor acquire.
C5_ExhaustionPropagates ==
    /\ []((Running /\ ExhaustionSignalled) => balance_exhausted)
    /\ [][(Running /\ balance_exhausted) => balance_exhausted']_vars
    /\ [][(AtRow /\ balance_exhausted /\ pc' # "crashed")
            => /\ phone_list' = Append(phone_list, NO_MONEY)
               /\ full_list' = Append(full_list, NO_MONEY)
               /\ processed' = processed + 1
               /\ UNCHANGED <<api_log, entered, call_count, cache>>]_vars

\* C5 witness: the first call was answered with the signal; the rows that
\* followed, with the same (now cached) key, with a key never looked up and
\* with an invalid key, all got the exhaustion outcome
C5_Witness ==
    /\ pc = "running" /\ balance_exhausted /\ processed = total_rows
    /\ DOMAIN api_log = {rows[1]} /\ api_log[rows[1]] = <<"402">>
    /\ rows[2] \in DOMAIN cache
    /\ rows[BlockLen + 1] \notin DOMAIN cache
    /\ isdigit(Chars(rows[BlockLen + 1]))
    /\ Len(Chars(rows[BlockLen + 1])) \in {10, 12}
    /\ ~isdigit(Chars(rows[2 * BlockLen + 1]))
    /\ \A i \in 1..processed :
         phone_list[i] = NO_MONEY /\ full_list[i] = NO_MONEY

\* C6: at the end of every row iteration, in every saved checkpoint and at
\* completion both outputs have length processed; at completion that is the
\* number of input rows.
C6_OutputLengths ==
    /\ pc \in {"running", "query", "delivered", "cleaned", "done", "failed"}
         => Len(phone_list) = processed /\ Len(full_list) = processed
    /\ \A id \in DOMAIN checkpoints :
         HasCheckpoint(checkpoints, id) =>
            LET saved == load_checkpoint(checkpoints, id)
            IN  /\ Len(saved.phone_list) = saved.processed
                /\ Len(saved.full_list) = saved.processed
    /\ pc = "done" => processed = total_rows
    /\ error # "ValueError"

\* C6 witness: a run resumed from a checkpoint has completed
C6_Witness ==
    pc = "done" /\ start_index > 0 /\ Len(phone_list) = MaxRows

\* the keys that pass the format check of the input column
ValidKeys == {k \in Keys : isdigit(Chars(k)) /\ Len(Chars(k)) \in {10, 12}}

\* the cache entries a lookup of key k can leave
LookupEntries ==
    [k \in Keys |-> { EntryFor(dyxless_query(k, r)) : r \in Responses }]

\* C7: the outputs are index-aligned with the input: both have one entry per
\* processed row, and entry i is the outcome of rows[i]: the exhaustion
\* outcome (only in an exhausted job), the invalid-key outcome for an invalid
\* key, and for a valid key the outcome of a lookup of that very key, which
\* is the one the cache holds for it.
C7_IndexAligned ==
    pc \in {"running", "query", "done"} =>
        /\ Len(phone_list) = processed /\ Len(full_list) = processed
        /\ \A i \in 1..processed :
             IF phone_list[i] = NO_MONEY
             THEN full_list[i] = NO_MONEY /\ balance_exhausted
             ELSE IF rows[i] \notin ValidKeys
             THEN phone_list[i] = NOT_INN /\ full_list[i] = NOT_INN
             ELSE /\ rows[i] \in DOMAIN cache
                  /\ cache[rows[i]] = <<phone_list[i], full_list[i], FALSE>>
                  /\ cache[rows[i]] \in LookupEntries[rows[i]]

\* C7 witness: a completed run over valid keys with different outcomes and an
\* invalid key, resumed from a checkpoint on the way
C7_Witness ==
    /\ pc = "done" /\ start_index > 0 /\ ~balance_exhausted
    /\ phone_list[1] = <<"+7", rows[1]>>
    /\ phone_list[BlockLen + 1] = NOT_INN
    /\ phone_list[2 * BlockLen + 1] = NO_PHONES
    /\ phone_list[total_rows] = phone_list[1]

\* the loop is at a row whose key fails the format check, the job not being
\* exhausted
AtInvalidRow ==
    /\ AtRow /\ ~balance_exhausted
    /\ (~isdigit(Chars(inn)) \/ Len(Chars(inn)) \notin {10, 12})

\* C8: a row whose key fails format validation, in a job that is not
\* exhausted, gets the invalid-key outcome in both outputs; no cache entry is
\* created, no external call is made and call_count is unchanged.
C8_InvalidKey ==
    [][(AtInvalidRow /\ pc' # "crashed")
         => /\ phone_list' = Append(phone_list, NOT_INN)
            /\ full_list' = Append(full_list, NOT_INN)
            /\ processed' = processed + 1
            /\ UNCHANGED <<cache, api_log, call_count, entered>>]_vars

\* C8 witness: "12345" and a ten-character key with a letter have both been
\* resolved as invalid, after a valid key was looked up
C8_Witness ==
    /\ pc = "running" /\ ~balance_exhausted /\ processed = 2 * BlockLen + 1
    /\ rows[1] \in DOMAIN cache
    /\ rows[BlockLen + 1] = "12345"
    /\ rows[processed] = "77362O7543"
    /\ phone_list[BlockLen + 1] = NOT_INN /\ full_list[BlockLen + 1] = NOT_INN
    /\ phone_list[processed] = NOT_INN /\ full_list[processed] = NOT_INN

\* C9: a run resumed from the checkpoint saved after row k starts with the
\* outputs the killed run had for rows 1..k, and no run ever changes an
\* output it has appended: the resumed run's outputs for those rows are the
\* uninterrupted run's.
C9_ResumeIdempotent ==
    /\ [][(pc = "crashed" /\ pc' = "running"
             /\ HasCheckpoint(checkpoints, checkpoint_id))
            => LET k == load_checkpoint(checkpoints, checkpoint_id).processed
               IN  /\ processed' = k /\ k <= Len(phone_list)
                   /\ Len(phone_list') >= k /\ Len(full_list') >= k
                   /\ \A i \in 1..k : /\ phone_list'[i] = phone_list[i]
                                      /\ full_list'[i] = full_list[i]]_vars
    /\ [][Running
            => /\ Len(phone_list') >= Len(phone_list)
               /\ Len(full_list') >= Len(full_list)
               /\ \A i \in 1..Len(phone_list) : phone_list'[i] = phone_list[i]
               /\ \A i \in 1..Len(full_list) : full_list'[i] = full_list[i]]_vars

\* C9 witness: a run resumed from a checkpoint has gone on past it
C9_Witness ==
    /\ pc = "running" /\ crashes = 1
    /\ start_index >= CHECKPOINT_EVERY /\ processed > start_index
    /\ phone_list[1] = <<"+7", rows[1]>>

\* C10: a job restarted after a kill is seeded (processed, cache, both
\* outputs, exhausted flag) from the checkpoint on disk and continues at that
\* checkpoint's processed count, whatever row the killed run had reached;
\* with no checkpoint it starts from zero.
C10_ResumeAtCheckpoint ==
    (pc = "running" /\ crash_at # None) =>
        IF HasCheckpoint(checkpoints, checkpoint_id)
        THEN LET saved == load_checkpoint(checkpoints, checkpoint_id)
             IN  /\ start_index = saved.processed
                 /\ processed = saved.processed
                 /\ phone_list = saved.phone_list
                 /\ full_list = saved.full_list
                 /\ cache = saved.cache
                 /\ balance_exhausted = saved.balance_exhausted
        ELSE /\ start_index = 0 /\ processed = 0
             /\ phone_list = <<>> /\ full_list = <<>>
             /\ cache = <<>> /\ ~balance_exhausted

\* C10 witness: killed after row 73, the job has resumed at index 50
C10_Witness ==
    /\ pc = "running" /\ crash_at = 73
    /\ start_index = 50 /\ processed = 50 /\ Len(phone_list) = 50

(***************************************************************************)
(* Claims about the life cycle of a job, checked under Spec.               *)
(***************************************************************************)
\* C12: whenever a job ends in FAILED (column missing, file unreadable, any
\* exception while processing or finalizing) the user's entry in
\* active_tasks has been removed.
C12_FailedReleasesSlot ==
    pc = "failed" => user_id \notin DOMAIN active_tasks

\* C13: on successful completion the final artifact is delivered, then the
\* checkpoint deleted, then the slot released: a checkpoint file disappears
\* only after the delivery, the slot is released only after the checkpoint
\* step, and once the job is DONE no checkpoint of its id exists and the user
\* has no entry in active_tasks.
C13_FinalizeOrder ==
    /\ [][(checkpoint_id \in DOMAIN checkpoints
             /\ checkpoint_id \notin DOMAIN checkpoints') => pc = "delivered"]_vars
    /\ [][(user_id \in DOMAIN active_tasks
             /\ user_id \notin DOMAIN active_tasks') => pc = "cleaned"]_vars
    /\ [](pc = "done" => /\ checkpoint_id \notin DOMAIN checkpoints
                         /\ user_id \notin DOMAIN active_tasks)

\* the exceptions raised by a messaging call
MessagingErrors == {"send_message", "send_document"}

\* C14: no failure of a messaging call ends the job in FAILED.
C14_MessagingTolerated ==
    pc = "failed" => error \notin MessagingErrors

(***************************************************************************)
(* Claims about the upload handler, checked under SpecUpload.              *)
(***************************************************************************)
\* the jobs of user u that are running
RunningJobs(u) == {m \in Uploads : sender[m] = u /\ tpc[m] = "running"}

\* C11: single-flight: under any interleaving of uploads at most one job is
\* running per user at any time (an upload of a user with a running job is
\* rejected and starts none).
C11_SingleFlight ==
    \A u \in Users : Cardinality(RunningJobs(u)) <= 1

(***************************************************************************)
(* Claims about the checkpoint store, checked under SpecStore.             *)
(***************************************************************************)
\* the job's checkpoint is readable and has the fields a resume reads
UsableCheckpoint ==
    /\ HasCheckpoint(checkpoints, checkpoint_id)
    /\ {"phone_list", "full_list", "cache", "processed"}
          \subseteq DOMAIN load_checkpoint(checkpoints, checkpoint_id)

\* C15: load_checkpoint never raises, and a job started on a checkpoint that
\* is missing, unreadable or corrupt (a readable image lacking expected
\* fields included) does not fail on it: it starts from index 0 with an
\* empty cache.
C15_CorruptStartsFresh ==
    [][(pc = "idle" /\ pc' # "idle" /\ ~UsableCheckpoint)
         => /\ error' # "KeyError"
            /\ error' = "" => /\ pc' = "running"
                              /\ start_index' = 0 /\ processed' = 0
                              /\ DOMAIN cache' = {}]_vars

\* C16: after any sequence of save and delete calls on an id, load returns
\* the data of the most recent successful save if no delete followed it, and
\* absent otherwise.
C16_StoreRoundTrip ==
    \A id \in StoreIds :
        IF id \in DOMAIN last_saved
        THEN /\ HasCheckpoint(checkpoints, id)
             /\ load_checkpoint(checkpoints, id) = last_saved[id]
        ELSE ~HasCheckpoint(checkpoints, id)

(***************************************************************************)
(* Further claims about the governor.                                      *)
(***************************************************************************)
\* C17 (under SpecRun): in a run whose calls arrive before the window of the
\* calls before them has elapsed, the governor pauses before the calls number
\* max_calls+1, 2*max_calls+1, ... and nowhere else: with quota 10 and 25
\* calls, exactly twice, before the 11th and before the 21st call.
C17_PausesOncePerQuota ==
    /\ \A i \in 1..Len(pause_log) : pause_log[i] = i * max_calls + 1
    /\ (gpc["job"] = "idle" /\ admit_times # <<>>)
          => Len(pause_log) = (Len(admit_times) - 1) \div max_calls

\* C17 witness: 2*max_calls+1 calls were admitted, with a pause before call
\* max_calls+1 and a pause before call 2*max_calls+1
C17_Witness ==
    /\ gpc["job"] = "idle"
    /\ Len(admit_times) = 2 * max_calls + 1
    /\ pause_log = <<max_calls + 1, 2 * max_calls + 1>>

\* caller c is paused inside the governor (it holds the lock and waits for the
\* window to elapse)
Paused(c) == gpc[c] \in {"cb_pause", "sleep", "cb_progress"}

\* caller c is inside the locked region of wait_if_needed
InLock(c) == gpc[c] \in {"cb_pause", "sleep", "cb_progress", "cb_done"}

\* C18 (under SpecGov): the callers of the one shared governor are serialized
\* by its lock, the quota is counted over all callers against one window,
\* and while a caller is paused inside the governor no other caller is
\* admitted.
C18_SharedGovernor ==
    /\ [](\A c, d \in Callers : (InLock(c) /\ InLock(d)) => c = d)
    /\ [](\A c \in Callers : InLock(c) => lock = c)
    /\ [](window_admits <= max_calls /\ call_count <= max_calls + 1)
    /\ [][\A c \in Callers :
            (Paused(c) /\ Len(admit_times') > Len(admit_times))
               => gpc'[c] = "idle"]_vars

\* C18 witness: one caller sleeps in the pause while the other waits for the
\* lock, the quota of the window having been used by both
C18_Witness ==
    /\ gpc["single"] = "sleep" /\ gpc["job"] = "queued"
    /\ window_admits = max_calls

\* C19 (under SpecGov): a call of get_status leaves the state of the
\* governor as it was, also while a caller is paused: the fields, the lock
\* and its queue and every caller's position are unchanged, so the calls
\* admitted or delayed afterwards are the same.
C19_StatusReadOnly ==
    [][returned'.call = "get_status"
         => UNCHANGED <<call_count, reset_time, cycle_start_time, lock,
                        lock_waiters, gpc, wait_time, wake_at, admit_times,
                        window_admits>>]_vars

\* C19 witness: get_status has been called while a caller sleeps in the pause
\* after the window has elapsed
C19_Witness ==
    /\ returned.call = "get_status"
    /\ returned.value.used = max_calls + 1
    /\ \E c \in Callers : gpc[c] = "sleep"
    /\ now - reset_time >= wait_seconds

\* C20 (under SpecGov): estimate_time(n) is 0 for n <= 0 and otherwise
\* n + k * wait_seconds for the k with k * max_calls <= n < (k+1) * max_calls,
\* and the call leaves the governor as it was.
C20_EstimateTime ==
    /\ [](returned.call = "estimate_time"
            => IF returned.arg <= 0
               THEN returned.value = 0
               ELSE \E k \in 0..returned.arg :
                       /\ k * max_calls <= returned.arg
                       /\ returned.arg < (k + 1) * max_calls
                       /\ returned.value = returned.arg + k * wait_seconds)
    /\ [][returned'.call = "estimate_time"
            => UNCHANGED <<call_count, reset_time, cycle_start_time, lock,
                           lock_waiters, gpc, wait_time, wake_at>>]_vars

\* C20 witness: the estimate for 2*max_calls requests, two full cycles, has
\* been asked for after calls were admitted
C20_Witness ==
    /\ returned.call = "estimate_time"
    /\ returned.arg = 2 * max_calls
    /\ returned.value = 2 * max_calls + 2 * wait_seconds
    /\ call_count > 0

(***************************************************************************)
(* Claims about checkpoints and artifacts.                                 *)
(***************************************************************************)
\* the processed count at the last checkpoint step of the run, or the index
\* the run started at
LastSavePoint == Max(last_checkpoint_save, start_index)

\* C22 (under Spec): at the end of every row iteration, the rows resolved as
\* invalid key or as exhausted included, fewer than 50 rows have been
\* processed since the last checkpoint save.
C22_CheckpointEvery50 ==
    (pc = "running" /\ processed > start_index)
        => processed - LastSavePoint < CHECKPOINT_EVERY

\* C21 (under Spec): no job ends silently: a job that has ended has delivered
\* the final artifact or the requester has received a message about the error
\* that ended it.
C21_NoSilentEnd ==
    pc \in {"delivered", "cleaned", "done", "failed"}
        => (pc # "failed" \/ reported)

\* C26 (under Spec): when a job has failed after a checkpoint was saved, the
\* checkpoint is on disk and load returns the state of the last successful
\* save.
C26_FailureKeepsCheckpoint ==
    (pc = "failed" /\ checkpoint_id \in DOMAIN last_saved)
        => /\ HasCheckpoint(checkpoints, checkpoint_id)
           /\ load_checkpoint(checkpoints, checkpoint_id) = last_saved[checkpoint_id]

\* the number of external calls the run has issued
CallsIssued(log) ==
    LET RECURSIVE Sum(_)
        Sum(ks) == IF ks = {} THEN 0
                   ELSE LET k == CHOOSE x \in ks : TRUE
                        IN  Len(log[k]) + Sum(ks \ {k})
    IN  Sum(DOMAIN log)

\* C30 (under Spec): in a run started from index 0 the size of the cache is
\* the number of external calls the run has issued, whatever their outcome,
\* at the end of every row iteration and when the figure is reported with
\* the final result.
C30_CacheCountsCalls ==
    (start_index = 0 /\ pc \in {"running", "throttle", "delivered", "cleaned", "done"})
        => Cardinality(DOMAIN cache) = CallsIssued(api_log)

\* C30 witness: a run from index 0 has ended after two calls, one answered
\* with an error and one with a record
C30_Witness ==
    /\ pc = "done" /\ start_index = 0 /\ crashes = 0
    /\ Cardinality(DOMAIN cache) = 2
    /\ \E k \in DOMAIN api_log : api_log[k] = <<"timeout">>
    /\ \E k \in DOMAIN api_log : api_log[k] = <<"found">>

\* C23 (under SpecLong): while the job runs, at most one backup artifact
\* that was shipped to the requester (the latest) is on disk.
C23_OneBackupOnDisk ==
    pc \in {"running", "query", "throttle"} => Cardinality(backups) <= 1

\* the cache of the checkpoint on disk, empty when load returns None
OnDiskCache ==
    IF HasCheckpoint(checkpoints, checkpoint_id)
       /\ "cache" \in DOMAIN load_checkpoint(checkpoints, checkpoint_id)
    THEN load_checkpoint(checkpoints, checkpoint_id).cache
    ELSE EmptyDict

\* the keys the run has called the service for whose results are not in the
\* checkpoint on disk
UnsavedCalls == {k \in DOMAIN api_log : k \notin DOMAIN OnDiskCache}

\* the last checkpoint step of the run, if there was one, wrote its file
LastSaveOk ==
    \/ last_checkpoint_save = 0
    \/ /\ HasCheckpoint(checkpoints, checkpoint_id)
       /\ load_checkpoint(checkpoints, checkpoint_id).processed = last_checkpoint_save

\* C24 (under SpecDistinct): at any point of a run whose checkpoint saves
\* succeed, and when the run is killed, the external calls made whose
\* results are not in the cache of the checkpoint on disk are at most 50.
C24_BoundedLoss ==
    (pc \in {"running", "query", "throttle", "crashed"} /\ LastSaveOk)
        => Cardinality(UnsavedCalls) <= CHECKPOINT_EVERY

\* C24 witness: the run is killed after its 50th call, before the row is
\* counted and the checkpoint written; all 50 results are lost
C24_Witness ==
    /\ pc = "crashed" /\ LastSaveOk
    /\ crash_at = CHECKPOINT_EVERY - 1
    /\ Cardinality(UnsavedCalls) = CHECKPOINT_EVERY
    /\ Cardinality(DOMAIN api_log) = CHECKPOINT_EVERY

\* C27 (under SpecStore): when the process was killed inside a save that
\* overwrites an existing checkpoint, load(id) returns the state saved before
\* or the new state, never None.
C27_AtomicSave ==
    (returned.call = "killed_save" /\ returned.value.had)
        => /\ HasCheckpoint(checkpoints, returned.arg)
           /\ load_checkpoint(checkpoints, returned.arg)
                 \in {returned.value.old, returned.value.new}

\* C28 (under SpecFormat): format_full_result and extract_phones_from_result
\* leave the raw result they are given unchanged, so that a second
\* application to the same object returns the string the first returned.
C28_FormatterPure ==
    [][/\ raw' = raw
       /\ returned'.call = "format_full_result"
            => format_full_result(raw') = returned'.value
       /\ returned'.call = "extract_phones_from_result"
            => extract_phones_from_result(raw') = returned'.value]_vars

\* C29 (under SpecUpload): no job is started with a checkpoint id that
\* another started job was given.
C29_FreshJobIds ==
    \A m1 \in Uploads : \A m2 \in Uploads \ {m1} :
        (tpc[m1] # "none" /\ tpc[m2] # "none") => tid[m1] # tid[m2]

\* C25 (under SpecGovLive): every call of wait_if_needed returns: a caller
\* that has entered, queued for the lock or pausing, with or without a
\* callback, eventually leaves the governor admitted.
C25_AlwaysReturns ==
    \A c \in Callers : (gpc[c] # "idle") ~> (gpc[c] = "idle")

\* C25 witness: every call that entered has returned, two of them after a
\* pause
C25_Witness ==
    /\ \A c \in Callers : gpc[c] = "idle"
    /\ entered = MaxEnter /\ Len(admit_times) = entered
    /\ Len(pause_log) >= 2

\* C33 (under SpecGov): call_count is between 0 and max_calls + 1, and is
\* max_calls + 1 only while a caller is paused inside the lock; get_status
\* reports remaining = max(0, max_calls - used), which is never negative, and
\* used + remaining = max_calls whenever no caller is paused.
C33_CallCountRange ==
    /\ 0 <= call_count /\ call_count <= max_calls + 1
    /\ call_count = max_calls + 1
         => \E c \in Callers : Paused(c) /\ lock = c
    /\ get_status.used = call_count
    /\ get_status.remaining = Max(0, max_calls - get_status.used)
    /\ get_status.remaining >= 0
    /\ (\A c \in Callers : ~Paused(c))
         => get_status.used + get_status.remaining = max_calls

\* C33 witness: get_status was called while a caller sleeps in the pause with
\* the counter at max_calls + 1, and reported nothing remaining
C33_Witness ==
    /\ returned.call = "get_status"
    /\ \E c \in Callers : gpc[c] = "sleep"
    /\ call_count = max_calls + 1
    /\ returned.value.used = max_calls + 1 /\ returned.value.remaining = 0

\* the cache holds an entry flagged as the exhaustion marker
Marked(c) == \E k \in DOMAIN c : c[k][3]

\* C31 (under Spec): at every row boundary and in every saved checkpoint, a
\* cache that holds an entry flagged as the exhaustion marker comes with the
\* exhausted flag set; so the branch that replays a cached marker and sets
\* the flag (lines 451-454) is never taken.
C31_MarkerImpliesFlag ==
    /\ pc \in {"running", "query", "throttle", "delivered", "cleaned", "done"}
         => (Marked(cache) => balance_exhausted)
    /\ \A id \in DOMAIN checkpoints :
         HasCheckpoint(checkpoints, id) =>
            LET saved == load_checkpoint(checkpoints, id)
            IN  Marked(saved.cache) => saved.balance_exhausted
    /\ ~(AtRow /\ ~balance_exhausted /\ inn \in DOMAIN cache /\ cache[inn][3])

\* C31 witness: a run resumed from a checkpoint whose cache holds the marker
\* is at a row boundary, at a row whose key is the one the marker is cached
\* for
C31_Witness ==
    /\ AtRow /\ start_index > 0 /\ processed > start_index
    /\ inn \in DOMAIN cache /\ cache[inn][3]
    /\ balance_exhausted
    /\ HasCheckpoint(checkpoints, checkpoint_id)
    /\ Marked(load_checkpoint(checkpoints, checkpoint_id).cache)

\* the step counts a row whose iteration reaches the checkpoint step (the
\* row did not `continue`)
CountedStep ==
    /\ processed' = processed + 1
    /\ \/ pc \in {"throttle", "query"}
       \/ AtRow /\ ~balance_exhausted /\ IsInn(inn)

\* the step calls save_checkpoint on the locals it leaves
SavesNow ==
    \E outcome \in SaveOutcomes :
        checkpoints' =
            save_checkpoint(checkpoints, checkpoint_id,
                            [phone_list |-> phone_list', full_list |-> full_list',
                             cache |-> cache', processed |-> processed',
                             balance_exhausted |-> balance_exhausted'], outcome)

\* C32 (under SpecLongResume): both counters start at 0 in a resumed run as
\* in a fresh one.  So a run resumed at index k >= 49 saves a checkpoint at
\* the end of its first row that reaches the checkpoint step, and is there
\* due to ship an artifact when k >= 99; afterwards it saves whenever 50 rows
\* were counted since that save, and not in between.
C32_CountersRestart ==
    [][/\ (pc \in {"idle", "crashed"} /\ pc' = "running")
            => /\ last_checkpoint_save' = 0 /\ last_file_send' = 0
               /\ processed' = start_index'
       /\ CountedStep
            => /\ IF processed' - last_checkpoint_save >= CHECKPOINT_EVERY
                  THEN last_checkpoint_save' = processed' /\ SavesNow
                  ELSE UNCHANGED <<last_checkpoint_save, checkpoints>>
               /\ (start_index >= CHECKPOINT_EVERY - 1
                     /\ last_checkpoint_save <= start_index)
                    => last_checkpoint_save' = processed' /\ SavesNow
               /\ (start_index >= BACKUP_EVERY - 1 /\ last_file_send <= start_index)
                    => /\ processed' - last_file_send >= BACKUP_EVERY
                       /\ \/ last_file_send' = processed' /\ processed' \in backups'
                          \/ UNCHANGED <<last_file_send, backups>>]_vars

\* C32 witness: a run resumed at index 100 saved a checkpoint and shipped an
\* artifact at the end of row 101, and saved again 50 rows later, at 151
C32_Witness ==
    /\ pc = "running" /\ crashes = 1
    /\ start_index = BACKUP_EVERY
    /\ last_file_send = start_index + 1 /\ (start_index + 1) \in backups
    /\ last_checkpoint_save = start_index + 1 + CHECKPOINT_EVERY
    /\ HasCheckpoint(checkpoints, checkpoint_id)
    /\ load_checkpoint(checkpoints, checkpoint_id).processed = last_checkpoint_save

=============================================================================
